---- MODULE Spec2Model ----
(***************************************************************************)
(* Model of src/pla.py, the Pure Project-Publication Relation Assistant:   *)
(* the "Start Matching" batch loop (lines 78-198) and the "Confirm and     *)
(* Link in Pure" writeback loop (lines 200-265), run against a remote Pure *)
(* server whose answers are nondeterministic.                              *)
(*                                                                         *)
(* Python strings that the code trims, lower-cases, parses or compares are *)
(* sequences of one-character strings.  Values that are only copied or     *)
(* tested for None (status, warning, labels, titles, type URIs) are TLA+   *)
(* strings, with NoneStr for Python's None.  A 36-character UUID string is *)
(* abbreviated to two characters, "u" and a digit.                         *)
(*                                                                         *)
(* Three specifications: SpecBatch is the batch loop over every kind of    *)
(* upload; SpecLink is the writeback over the result tables a batch run    *)
(* stores; Spec is the whole script, upload to writeback, for the cleaned  *)
(* file.                                                                   *)
(***************************************************************************)
EXTENDS Integers, Sequences, FiniteSets, TLC

VARIABLES
    columns,      \* df.columns after normalisation (line 76); {} before an upload
    df,           \* the data frame of the current script run (lines 73-89)
    bpc,          \* position of the script: "nofile", "loaded", "loop", "done", "aborted"
    bi,           \* idx of the batch loop (line 93)
    has_matched,  \* "matched_df" in st.session_state (lines 198, 200)
    matched_df,   \* st.session_state["matched_df"]
    remote,       \* the server: project uuid -> set of related-output entries
    calls,        \* history: the remote calls issued for the row processed last, in order
    found,        \* history: what the identifier search of that row scanned and counted
    dry_run,      \* the "Dry run mode" checkbox as read by the running writeback
    wpc,          \* writeback position: "idle", "refetch", "put", "done", "aborted"
    grouped,      \* to_link_df.groupby("project_uuid"): the group keys in order
    gi,           \* index of the current group
    to_link,      \* to_link_df: the indices of the rows that passed line 206
    existing,     \* existing (lines 223-227) of the current group
    payload,      \* the payload built at lines 228-235 for the current group
    log,          \* log (line 216)
    success,      \* success (line 214)
    fail,         \* fail (line 215)
    hist          \* history of the writeback runs (see HistInit)

vars == <<columns, df, bpc, bi, has_matched, matched_df, remote, calls, found,
          dry_run, wpc, grouped, gi, to_link, existing, payload, log, success, fail, hist>>

batchVars == <<columns, df, bpc, bi, has_matched, matched_df, calls, found>>
wbVars == <<dry_run, wpc, grouped, gi, to_link, existing, payload, log, success, fail>>

-----------------------------------------------------------------------------
(* Bounds of the model.                                                    *)

MaxRows == 2      \* rows of an uploaded CSV
MaxRuns == 2      \* clicks on "Confirm and Link in Pure"
MaxExt == 1       \* relations added by an external actor

-----------------------------------------------------------------------------
(* Strings.                                                                *)

NoneStr == "None"
NoneSeq == <<>>   \* None in a column that otherwise holds a non-empty string

Alphabet == <<" ", "/", "1", "2", "7", "8", ":", "A", "G", "X", "a", "d", "h", "n", "p", "t", "u", "x">>

Ord(c) == CHOOSE i \in 1..Len(Alphabet) : Alphabet[i] = c

RECURSIVE LStrip(_, _)
LStrip(s, ch) == IF s # <<>> /\ Head(s) = ch THEN LStrip(Tail(s), ch) ELSE s

RECURSIVE RStrip(_)
RStrip(s) == IF s # <<>> /\ s[Len(s)] = " " THEN RStrip(SubSeq(s, 1, Len(s) - 1)) ELSE s

\* str.strip(): whitespace removed at both ends
Strip(s) == RStrip(LStrip(s, " "))

LowerChar(c) == CASE c = "A" -> "a" [] c = "G" -> "g" [] c = "X" -> "x" [] OTHER -> c

\* str.lower()
Lower(s) == [i \in 1..Len(s) |-> LowerChar(s[i])]

StartsWith(s, p) == Len(s) >= Len(p) /\ SubSeq(s, 1, Len(p)) = p

RECURSIVE Find(_, _, _)
\* least index >= from at which c occurs in s, 0 when there is none
Find(s, c, from) ==
    IF from > Len(s) THEN 0
    ELSE IF s[from] = c THEN from ELSE Find(s, c, from + 1)

\* urlparse(s).path for scheme://netloc/path (the strings of the model hold
\* no query, fragment or parameters)
UrlPath(s) ==
    LET colon == Find(s, ":", 1)
    IN  IF colon = 0 THEN s
        ELSE IF Len(s) >= colon + 2 /\ s[colon + 1] = "/" /\ s[colon + 2] = "/"
             THEN LET slash == Find(s, "/", colon + 3)
                  IN  IF slash = 0 THEN <<>> ELSE SubSeq(s, slash, Len(s))
             ELSE SubSeq(s, colon + 1, Len(s))

\* DOI normalisation, lines 107-112
NormalizeDoi(raw_doi) ==
    IF StartsWith(raw_doi, <<"h", "t", "t", "p">>)
    THEN LStrip(UrlPath(raw_doi), "/")
    ELSE raw_doi

RECURSIVE StrLess(_, _)
\* lexicographic order of strings, the order groupby sorts its keys in
StrLess(s, t) ==
    IF t = <<>> THEN FALSE
    ELSE IF s = <<>> THEN TRUE
    ELSE IF Head(s) = Head(t) THEN StrLess(Tail(s), Tail(t))
    ELSE Ord(Head(s)) < Ord(Head(t))

\* uuidlib.UUID(s, version=4) does not raise ValueError
IsUUID(s) == Len(s) = 2 /\ s[1] = "u" /\ s[2] \in {"1", "2", "7", "8"}

-----------------------------------------------------------------------------
(* Cells of the CSV as pd.read_csv(dtype=str) delivers them (line 73): an  *)
(* empty field is NaN (a float), any other field is its text.              *)

NaN == [na |-> TRUE, s |-> <<>>]
Txt(s) == [na |-> FALSE, s |-> s]

\* str(x)
PyStr(cell) == IF cell.na THEN <<"n", "a", "n">> ELSE cell.s

\* bool(x): NaN is a non-zero float, hence true; a string is true when non-empty
Truthy(cell) == cell.na \/ cell.s # <<>>

\* x or ""
OrEmpty(cell) == IF Truthy(cell) THEN cell ELSE Txt(<<>>)

\* row.get(col, "")
RowGet(cols, row, col) == IF col \in cols THEN row[col] ELSE Txt(<<>>)

-----------------------------------------------------------------------------
(* The remote Pure server.                                                 *)

U1 == <<"u", "1">>
U2 == <<"u", "2">>
Projects == {U1, U2}

V7 == <<"u", "7">>
V8 == <<"u", "8">>
Pubs == {V7, V8}

\* one element of a project's "researchOutputs" list
RO(u) == [has_uuid |-> TRUE, uuid |-> u]
\* an element that carries no researchOutput.uuid
Dangling == [has_uuid |-> FALSE, uuid |-> NoneSeq]

ProjectTitle(p) == IF p = U1 THEN "Project one" ELSE "Project two"

\* HTTP status codes the server answers with; requests' Response.ok
StatusCodes == {200, 500}
Ok(status) == status < 400

\* What a call to requests.get/post/put can do: raise a transport error
\* ("raise"), answer 2xx with a JSON body ("ok"), answer with an error status
\* and a JSON error body ("err"), or answer 2xx with a body .json() cannot
\* parse ("badjson").
GetKinds == {"ok", "err", "badjson", "raise"}

\* GET /ws/api/projects/{p} of kind k, the server holding rel
ProjectGet(k, p, rel) ==
    IF k = "ok" /\ p \in DOMAIN rel
    THEN [exc |-> FALSE, status |-> 200, json |-> TRUE,
          body |-> [uuid |-> p, title |-> ProjectTitle(p),
                    has_ro |-> rel[p] # {}, researchOutputs |-> rel[p]]]
    ELSE [exc |-> k = "raise", status |-> IF k = "badjson" THEN 200 ELSE 500,
          json |-> k # "badjson",
          body |-> [uuid |-> NoneSeq, title |-> NoneStr,
                    has_ro |-> FALSE, researchOutputs |-> {}]]

Ident(id, uri) == [id |-> id, type_uri |-> uri]
Item(p, ids) == [uuid |-> p, title |-> ProjectTitle(p), identifiers |-> ids]

TokA == <<"A">>
TokG == <<"G">>

\* result lists of POST /ws/api/projects/search
SearchItems ==
    { <<>>,
      <<Item(U1, <<Ident(TokA, "/type/ext")>>)>>,
      <<Item(U2, <<Ident(<<"a">>, "/type/ext"), Ident(TokA, "/type/grant"),
                   Ident(TokG, "/type/grant")>>)>>,
      <<Item(U1, <<Ident(<<"A", "1">>, "/type/ext"), Ident(<<" ", "A", " ">>, "/type/contract"),
                   Ident(TokA, "/type/ext")>>)>>,
      <<Item(U2, <<Ident(<<"A", "1">>, "/type/ext"), Ident(TokA, "/type/contract")>>),
        Item(U1, <<Ident(TokA, "/type/ext")>>)>> }

SearchResponses ==
    { [exc |-> TRUE, status |-> 500, json |-> TRUE, items |-> <<>>],
      [exc |-> FALSE, status |-> 500, json |-> TRUE, items |-> <<>>],
      [exc |-> FALSE, status |-> 200, json |-> FALSE, items |-> <<>>] }
    \cup { [exc |-> FALSE, status |-> 200, json |-> TRUE, items |-> it] : it \in SearchItems }

EV(t, d) == [typeDiscriminator |-> t, doi |-> d]
Pub(u, evs) == [uuid |-> u, title |-> IF u = V7 THEN "Paper seven" ELSE "Paper eight",
                electronicVersions |-> evs]

Doi1x == <<"1", "/", "x">>

\* result lists of POST /ws/api/research-outputs/search
PubItems ==
    { <<>>,
      <<Pub(V7, <<EV("DoiElectronicVersion", <<"1", "/", "X">>)>>)>>,
      <<Pub(V7, <<EV("FileElectronicVersion", Doi1x), EV("DoiElectronicVersion", <<"1", "/", "x", "2">>)>>),
        Pub(V8, <<EV("DoiElectronicVersion", <<" ", "1", "/", "x">>)>>),
        Pub(V7, <<EV("DoiElectronicVersion", Doi1x)>>)>> }

PubResponses ==
    { [exc |-> TRUE, status |-> 500, json |-> TRUE, count |-> 0, items |-> <<>>],
      [exc |-> FALSE, status |-> 500, json |-> TRUE, count |-> 0, items |-> <<>>],
      [exc |-> FALSE, status |-> 200, json |-> FALSE, count |-> 0, items |-> <<>>] }
    \cup { [exc |-> FALSE, status |-> 200, json |-> TRUE, count |-> Len(it), items |-> it] :
           it \in PubItems }

\* idtype_map, lines 56-63: the identifier types the server allows, by URI
idtype_map == [uri \in {"/type/ext", "/type/grant"} |->
                 IF uri = "/type/ext" THEN "External ID" ELSE "Grant ID"]

\* idtype_map.get(uri, uri), line 142
IdLabel(uri) == IF uri \in DOMAIN idtype_map THEN idtype_map[uri] ELSE uri

\* existing_outputs (lines 186-190) and existing (lines 223-227): the uuids of
\* the researchOutputs elements that carry one; a body without the key gives []
ExistingOutputs(body) ==
    IF body.has_ro THEN {ro.uuid : ro \in {x \in body.researchOutputs : x.has_uuid}} ELSE {}

-----------------------------------------------------------------------------
(* Uploads.                                                                *)

DoiUrl == <<"h", "t", "t", "p", ":", "/", "/", "d", "/", "1", "/", "x">>

\* the rows an uploaded CSV is made of
RowInputs ==
    { [projectid |-> NaN,                 grantid |-> NaN,            doi |-> Txt(Doi1x)],
      [projectid |-> Txt(<<" ">>),        grantid |-> Txt(<<" ">>),   doi |-> Txt(Doi1x)],
      [projectid |-> Txt(<<"A", " ">>),   grantid |-> Txt(TokG),      doi |-> Txt(DoiUrl)],
      [projectid |-> NaN,                 grantid |-> Txt(TokG),      doi |-> Txt(Doi1x)],
      [projectid |-> Txt(U1),             grantid |-> NaN,            doi |-> Txt(DoiUrl)] }

\* the headers of an uploaded CSV, stripped and lower-cased (line 76)
Headers == { {"projectid", "grantid", "doi"}, {"projectid", "doi"}, {"grantid", "doi"}, {"doi"} }

\* a row of df: the cells of the CSV (a column the CSV lacks has no cell; the
\* record keeps NaN in its place, which RowGet never reads) and, once Start
\* Matching has added them, the result columns
InputRow(cols, r) ==
    [projectid |-> IF "projectid" \in cols THEN r.projectid ELSE NaN,
     grantid |-> IF "grantid" \in cols THEN r.grantid ELSE NaN,
     doi |-> r.doi,
     project_uuid |-> NoneSeq, publication_uuid |-> NoneSeq,
     project_title |-> NoneStr, publication_title |-> NoneStr,
     status |-> NoneStr, link |-> FALSE,
     matched_identifier_type_uri |-> NoneStr, matched_identifier_label |-> NoneStr,
     identifier_warning |-> NoneStr, input_id_source |-> NoneStr]

\* lines 80-89
ResetColumns(row) ==
    [row EXCEPT !.project_uuid = NoneSeq, !.publication_uuid = NoneSeq,
                !.project_title = NoneStr, !.publication_title = NoneStr,
                !.status = NoneStr, !.link = FALSE,
                !.matched_identifier_type_uri = NoneStr, !.matched_identifier_label = NoneStr,
                !.identifier_warning = NoneStr, !.input_id_source = NoneStr]

-----------------------------------------------------------------------------
(* The batch loop, lines 93-196, one row at a time.  Each stage draws the  *)
(* server's answer to the call it makes and either ends the pass (Finish)  *)
(* or goes on to the next stage.                                           *)

NoSearch == [scanned |-> FALSE, token |-> <<>>, items |-> <<>>, match_count |-> 0]

StNoInput == "No ProjectID or GrantID provided"
StProjectNotFound == "Project not found"
StDoiNotFound == "DOI not found in Pure"
StAlreadyLinked == "Already linked"
StReadyToLink == "Ready to link"
\* f"DOI lookup failed: {e}", e a transport error or a JSON decoding error
StDoiLookupFailed(resp) ==
    IF resp.exc THEN "DOI lookup failed: ConnectionError" ELSE "DOI lookup failed: JSONDecodeError"

\* The pass over row bi ends: by continue or the end of the body (the loop
\* goes on to the next row), or by an exception that nothing catches (raised:
\* the script run ends there, lines 198 and following are not reached).
Finish(row, raised, cs, fnd) ==
    /\ df' = [df EXCEPT ![bi] = row]
    /\ calls' = cs
    /\ found' = fnd
    /\ bpc' = IF raised THEN "aborted" ELSE "loop"
    /\ bi' = IF raised THEN bi ELSE bi + 1

\* MarkAudit with the link flag set on both branches
MarkAuditFlagAlways(row, already) ==
    [row EXCEPT !.status = IF already THEN StAlreadyLinked ELSE StReadyToLink, !.link = TRUE]

\* lines 192-196: the status and the link flag the audit gives the row
MarkAudit(row, already) ==
    IF already
    THEN [row EXCEPT !.status = StAlreadyLinked]
    ELSE [row EXCEPT !.status = StReadyToLink, !.link = TRUE]

\* lines 184-196: fetch the project and look for the publication among its
\* outputs; neither the call nor .json() is guarded
AuditRelation(row, project_uuid, pub_uuid, cs, fnd) ==
    \E akind \in GetKinds :
        LET full_proj == ProjectGet(akind, project_uuid, remote)
            cs2 == Append(cs, "GET project")
        IN  IF full_proj.exc \/ ~full_proj.json
            THEN Finish(row, TRUE, cs2, fnd)
            ELSE Finish(MarkAudit(row, pub_uuid \in ExistingOutputs(full_proj.body)),
                        FALSE, cs2, fnd)

\* line 170, for the versions of one item (the break of line 172 does not
\* change whether the item matches)
HasDoi(item, doi) ==
    \E i \in 1..Len(item.electronicVersions) :
        LET ev == item.electronicVersions[i]
        IN  /\ ev.typeDiscriminator = "DoiElectronicVersion"
            /\ Lower(Strip(ev.doi)) = Lower(doi)

RECURSIVE FirstPub(_, _, _)
\* lines 168-174: index of the first item with a matching DOI version, 0 for None
FirstPub(items, doi, i) ==
    IF i > Len(items) THEN 0
    ELSE IF HasDoi(items[i], doi) THEN i ELSE FirstPub(items, doi, i + 1)

\* lines 153-182, then the audit
FindPublication(row, project_uuid, doi, cs, fnd) ==
    \E pub_resp \in PubResponses :
        LET cs2 == Append(cs, "POST research-outputs/search")
        IN  IF pub_resp.exc \/ ~pub_resp.json
            THEN Finish([row EXCEPT !.status = StDoiLookupFailed(pub_resp)], FALSE, cs2, fnd)
            ELSE LET k == IF Ok(pub_resp.status) /\ pub_resp.count > 0
                          THEN FirstPub(pub_resp.items, doi, 1) ELSE 0
                 IN  IF k = 0
                     THEN Finish([row EXCEPT !.status = StDoiNotFound], FALSE, cs2, fnd)
                     ELSE LET found_pub == pub_resp.items[k]
                          IN  AuditRelation([row EXCEPT !.publication_uuid = found_pub.uuid,
                                                        !.publication_title = found_pub.title],
                                            project_uuid, found_pub.uuid, cs2, fnd)

\* Bind without the test of line 137: every match rebinds, the last one stays
BindLast(acc, item, identifier) ==
    [acc EXCEPT !.bound = TRUE, !.project_uuid = item.uuid, !.found_project = item,
                !.row = [@ EXCEPT !.matched_identifier_type_uri = identifier.type_uri,
                                  !.matched_identifier_label = IdLabel(identifier.type_uri)]]

\* lines 137-142: the first match binds the project and the identifier type
Bind(acc, item, identifier) ==
    IF ~acc.bound
    THEN [acc EXCEPT !.bound = TRUE, !.project_uuid = item.uuid, !.found_project = item,
                     !.row = [@ EXCEPT !.matched_identifier_type_uri = identifier.type_uri,
                                       !.matched_identifier_label = IdLabel(identifier.type_uri)]]
    ELSE acc

\* line 136
Count(acc) == [acc EXCEPT !.match_count = @ + 1]

RECURSIVE ScanIdentifiers(_, _, _, _)
\* lines 134-142, the identifiers of one item from the j-th on
ScanIdentifiers(acc, item, j, token) ==
    IF j > Len(item.identifiers) THEN acc
    ELSE LET identifier == item.identifiers[j]
         IN  ScanIdentifiers(IF Strip(identifier.id) = token
                             THEN Bind(Count(acc), item, identifier)
                             ELSE acc,
                             item, j + 1, token)

RECURSIVE ScanItems(_, _, _, _)
\* lines 133-142, the items from the i-th on
ScanItems(acc, items, i, token) ==
    IF i > Len(items) THEN acc
    ELSE ScanItems(ScanIdentifiers(acc, items[i], 1, token), items, i + 1, token)

\* the text after the warning sign of f"⚠ Multiple matches for {input_source}"
WarnText(input_source) ==
    IF input_source = "ProjectID" THEN "Multiple matches for ProjectID"
    ELSE "Multiple matches for GrantID"

\* lines 143-144
Warn(row, match_count, input_source) ==
    IF match_count > 1 THEN [row EXCEPT !.identifier_warning = WarnText(input_source)] ELSE row

\* lines 146-151, then the publication stages
AfterLookup(row, bound, project_uuid, found_project, doi, cs, fnd) ==
    IF ~bound
    THEN Finish([row EXCEPT !.status = StProjectNotFound], FALSE, cs, fnd)
    ELSE FindPublication([row EXCEPT !.project_uuid = project_uuid,
                                     !.project_title = found_project.title],
                         project_uuid, doi, cs, fnd)

\* lines 129-144: the identifier search, when the UUID fetch found nothing;
\* neither the call nor .json() is guarded
IdentifierSearch(row, token, input_source, doi, cs) ==
    \E proj_resp \in SearchResponses :
        LET cs2 == Append(cs, "POST projects/search")
        IN  IF proj_resp.exc \/ (Ok(proj_resp.status) /\ ~proj_resp.json)
            THEN Finish(row, TRUE, cs2, NoSearch)
            ELSE IF ~Ok(proj_resp.status)
            THEN AfterLookup(row, FALSE, NoneSeq, Item(NoneSeq, <<>>), doi, cs2, NoSearch)
            ELSE LET acc == ScanItems([match_count |-> 0, bound |-> FALSE,
                                       project_uuid |-> NoneSeq,
                                       found_project |-> Item(NoneSeq, <<>>), row |-> row],
                                      proj_resp.items, 1, token)
                 IN  AfterLookup(Warn(acc.row, acc.match_count, input_source),
                                 acc.bound, acc.project_uuid, acc.found_project, doi, cs2,
                                 [scanned |-> TRUE, token |-> token, items |-> proj_resp.items,
                                  match_count |-> acc.match_count])

\* lines 114-148: the direct fetch of a UUID (a transport error is no
\* ValueError and leaves the loop; a JSON decoding error is one and is passed
\* over), then the identifier search
LookupProject(row, token, input_source, doi) ==
    IF IsUUID(token)
    THEN \E ukind \in GetKinds :
            LET pj == ProjectGet(ukind, token, remote)
                cs == <<"GET project">>
            IN  IF pj.exc THEN Finish(row, TRUE, cs, NoSearch)
                ELSE IF Ok(pj.status) /\ pj.json
                THEN AfterLookup(row, TRUE, token, pj.body, doi, cs, NoSearch)
                ELSE IdentifierSearch(row, token, input_source, doi, cs)
    ELSE IdentifierSearch(row, token, input_source, doi, <<>>)

\* lines 95-98: the identifier the row is matched by, and the column it came from
PickIdentifier(cols, row) ==
    LET pid == Strip(PyStr(OrEmpty(RowGet(cols, row, "projectid"))))
        gid == Strip(PyStr(OrEmpty(RowGet(cols, row, "grantid"))))
    IN  [project_id_value |-> IF pid # <<>> THEN pid ELSE gid,
         input_source |-> IF pid # <<>> THEN "ProjectID"
                          ELSE IF gid # <<>> THEN "GrantID" ELSE NoneStr]

\* lines 93-196: one pass of the loop body
ProcessRow(cols, row) ==
    LET id == PickIdentifier(cols, row)
        r1 == [row EXCEPT !.input_id_source = id.input_source]
    IN  IF id.project_id_value = <<>>
        THEN Finish([r1 EXCEPT !.status = StNoInput], FALSE, <<>>, NoSearch)
        ELSE LookupProject(r1, id.project_id_value, id.input_source,
                           NormalizeDoi(Strip(PyStr(RowGet(cols, row, "doi")))))

-----------------------------------------------------------------------------
(* State.                                                                  *)

RemoteInits ==
    { [p \in Projects |-> IF p = U1 THEN {RO(V7)} ELSE {}],
      [p \in Projects |-> IF p = U1 THEN {RO(V8), Dangling} ELSE {RO(V7)}] }

\* History of the writeback, for stating the properties; the code keeps none
\* of it.
\*   runs       clicks on "Confirm and Link in Pure" so far
\*   ext        relations added by the external actor so far
\*   puts       PUT calls issued by the current run
\*   results    status code of the PUT of each group the current run has logged
\*   put_ok     projects whose PUT of the current run was answered 2xx
\*   base       what the server would hold had the current run written nothing
\*   stale      <<project, publication>> added externally after the batch run and
\*              before the current run's re-fetch of the project (those of
\*              them the server still holds when the run starts)
\*   other      <<project, publication>> added externally later than that
\*   live_runs  live runs that ran to their end, kept while no external
\*              actor has changed the server
\*   snap       the server at the end of the first of them
\*   ok1        the projects that run's PUTs were answered 2xx for
HistInit ==
    [runs |-> 0, ext |-> 0, puts |-> 0, results |-> <<>>, put_ok |-> {},
     base |-> [p \in Projects |-> {}], stale |-> {}, other |-> {},
     live_runs |-> 0, snap |-> [p \in Projects |-> {}], ok1 |-> {}]

Init ==
    /\ columns = {}
    /\ df = <<>>
    /\ bpc = "nofile"
    /\ bi = 0
    /\ has_matched = FALSE
    /\ matched_df = <<>>
    /\ remote \in RemoteInits
    /\ calls = <<>>
    /\ found = NoSearch
    /\ dry_run = TRUE
    /\ wpc = "idle"
    /\ grouped = <<>>
    /\ gi = 0
    /\ to_link = {}
    /\ existing = {}
    /\ payload = {}
    /\ log = <<>>
    /\ success = 0
    /\ fail = 0
    /\ hist = HistInit

\* lines 68-76: a CSV is uploaded and read
Upload ==
    /\ bpc = "nofile"
    /\ \E cols \in Headers, n \in 1..MaxRows :
         \E rows \in [1..n -> RowInputs] :
            /\ columns' = cols
            /\ df' = [i \in 1..n |-> InputRow(cols, rows[i])]
    /\ bpc' = "loaded"
    /\ UNCHANGED <<bi, has_matched, matched_df, remote, calls, found, hist>>
    /\ UNCHANGED wbVars

\* lines 78-91: "Start Matching" is clicked
StartMatching ==
    /\ bpc = "loaded"
    /\ df' = [i \in 1..Len(df) |-> ResetColumns(df[i])]
    /\ bi' = 1
    /\ bpc' = "loop"
    /\ UNCHANGED <<columns, has_matched, matched_df, remote, calls, found, hist>>
    /\ UNCHANGED wbVars

\* lines 93-196: the loop body for row bi
MatchRow ==
    /\ bpc = "loop"
    /\ bi <= Len(df)
    /\ ProcessRow(columns, df[bi])
    /\ UNCHANGED <<columns, has_matched, matched_df, remote, hist>>
    /\ UNCHANGED wbVars

\* line 198, after the last row
StoreMatched ==
    /\ bpc = "loop"
    /\ bi > Len(df)
    /\ matched_df' = df
    /\ has_matched' = TRUE
    /\ bpc' = "done"
    /\ UNCHANGED <<columns, df, bi, remote, calls, found, hist>>
    /\ UNCHANGED wbVars

-----------------------------------------------------------------------------
(* The writeback, lines 200-263.                                           *)

\* ToLinkRows without the test of identifier_warning
ToLinkRowsNoWarningTest(d) ==
    {i \in 1..Len(d) : d[i].link /\ d[i].status = StReadyToLink}

\* line 206: the rows of to_link_df, by index
ToLinkRows(d) ==
    {i \in 1..Len(d) : /\ d[i].link
                       /\ d[i].status = StReadyToLink
                       /\ d[i].identifier_warning = NoneStr}

RECURSIVE SortKeys(_)
\* the keys of a groupby, ascending
SortKeys(S) ==
    IF S = {} THEN <<>>
    ELSE LET m == CHOOSE x \in S : \A y \in S \ {x} : StrLess(x, y)
         IN  <<m>> \o SortKeys(S \ {m})

\* line 217: groupby("project_uuid") leaves out the rows without a key
GroupKeys(d, rows) == SortKeys({d[i].project_uuid : i \in rows} \ {NoneSeq})

RECURSIVE ToAddFrom(_, _, _, _)
\* line 220: group["publication_uuid"].tolist(), the rows in their order
ToAddFrom(d, rows, p, i) ==
    IF i > Len(d) THEN <<>>
    ELSE (IF i \in rows /\ d[i].project_uuid = p THEN <<d[i].publication_uuid>> ELSE <<>>)
         \o ToAddFrom(d, rows, p, i + 1)

ToAdd(d, rows, p) == ToAddFrom(d, rows, p, 1)

Range(seq) == {seq[i] : i \in 1..Len(seq)}

\* line 228: all_uuids = list(set(existing + to_add))
MergeUuids(exist, to_add) == exist \cup Range(to_add)

\* lines 230-235
BuildPayload(all_uuids) == {RO(u) : u \in all_uuids}

Entry(p, puid, kind, code) == [project |-> p, publication |-> puid, kind |-> kind, code |-> code]

\* DryRunLog with one entry for the group instead of one for each publication
DryRunLogOnce(p, to_add) == <<Entry(p, to_add[1], "Dry run", 0)>>

\* lines 238-239
DryRunLog(p, to_add) == [k \in 1..Len(to_add) |-> Entry(p, to_add[k], "Dry run", 0)]

\* lines 249-250
LinkedLog(p, to_add) == [k \in 1..Len(to_add) |-> Entry(p, to_add[k], "Linked", 0)]

\* FailedLog with one entry for the group instead of one for each publication
FailedLogOnce(p, to_add, status_code) == <<Entry(p, to_add[1], "Failed", status_code)>>

\* lines 253-254
FailedLog(p, to_add, status_code) ==
    [k \in 1..Len(to_add) |-> Entry(p, to_add[k], "Failed", status_code)]

\* what requests.put can do: raise, or answer with a status code
PutResponses ==
    {[exc |-> TRUE, status |-> 500]} \cup {[exc |-> FALSE, status |-> c] : c \in StatusCodes}

\* lines 212-217: "Confirm and Link in Pure" is clicked (the button is shown
\* when to_link_df is not empty, line 208)
ConfirmAndLink ==
    /\ has_matched
    /\ wpc \in {"idle", "done", "aborted"}
    /\ ToLinkRows(matched_df) # {}
    /\ hist.runs < MaxRuns
    /\ \E d \in BOOLEAN : dry_run' = d
    /\ to_link' = ToLinkRows(matched_df)
    /\ grouped' = GroupKeys(matched_df, to_link')
    /\ gi' = 1
    /\ wpc' = IF grouped' = <<>> THEN "done" ELSE "refetch"
    /\ existing' = {}
    /\ payload' = {}
    /\ log' = <<>>
    /\ success' = 0
    /\ fail' = 0
    /\ hist' = [hist EXCEPT !.runs = @ + 1, !.puts = 0, !.results = <<>>, !.put_ok = {},
                            !.base = remote,
                            !.stale = {pv \in hist.stale \cup hist.other :
                                         RO(pv[2]) \in remote[pv[1]]},
                            !.other = {}]
    /\ UNCHANGED <<remote>>
    /\ UNCHANGED batchVars

\* the loop goes on to the next group, or ends (lines 256-263)
Advance ==
    /\ gi' = gi + 1
    /\ wpc' = IF gi = Len(grouped) THEN "done" ELSE "refetch"

\* lines 219-239: the re-fetch of the current group's project and the merge;
\* neither the call nor .json() is guarded, and the status is not looked at
Refetch ==
    /\ wpc = "refetch"
    /\ LET proj_uuid == grouped[gi]
           to_add == ToAdd(matched_df, to_link, proj_uuid)
       IN  \E k \in GetKinds :
             LET current == ProjectGet(k, proj_uuid, remote)
             IN  IF current.exc \/ ~current.json
                 THEN /\ wpc' = "aborted"
                      /\ UNCHANGED <<gi, existing, payload, log>>
                 ELSE /\ existing' = ExistingOutputs(current.body)
                      /\ payload' = BuildPayload(MergeUuids(existing', to_add))
                      /\ IF dry_run
                         THEN /\ log' = log \o DryRunLog(proj_uuid, to_add)
                              /\ Advance
                         ELSE /\ wpc' = "put"
                              /\ UNCHANGED <<gi, log>>
    /\ UNCHANGED <<dry_run, grouped, to_link, success, fail, remote, hist>>
    /\ UNCHANGED batchVars

\* lines 241-254: the PUT of the current group and its log entries
Put ==
    /\ wpc = "put"
    /\ LET proj_uuid == grouped[gi]
           to_add == ToAdd(matched_df, to_link, proj_uuid)
       IN  \E put_resp \in PutResponses :
             IF put_resp.exc
             THEN /\ wpc' = "aborted"
                  /\ hist' = [hist EXCEPT !.puts = @ + 1]
                  /\ UNCHANGED <<gi, log, success, fail, remote>>
             ELSE /\ Advance
                  /\ IF Ok(put_resp.status)
                     THEN /\ remote' = [remote EXCEPT ![proj_uuid] = payload]
                          /\ success' = success + Len(to_add)
                          /\ log' = log \o LinkedLog(proj_uuid, to_add)
                          /\ UNCHANGED fail
                     ELSE /\ fail' = fail + Len(to_add)
                          /\ log' = log \o FailedLog(proj_uuid, to_add, put_resp.status)
                          /\ UNCHANGED <<success, remote>>
                  /\ LET oks == IF Ok(put_resp.status)
                                THEN hist.put_ok \cup {proj_uuid} ELSE hist.put_ok
                         last == gi = Len(grouped) /\ hist.ext = 0
                         first == last /\ hist.live_runs = 0
                     IN  hist' = [hist EXCEPT
                                    !.puts = @ + 1,
                                    !.results = Append(@, put_resp.status),
                                    !.put_ok = oks,
                                    !.live_runs = IF last THEN @ + 1 ELSE @,
                                    !.snap = IF first THEN remote' ELSE @,
                                    !.ok1 = IF first THEN oks ELSE @]
    /\ UNCHANGED <<dry_run, grouped, to_link, existing, payload>>
    /\ UNCHANGED batchVars

\* whether the running writeback has already re-fetched project p
Refetched(p) ==
    \E i \in 1..Len(grouped) : grouped[i] = p /\ (i < gi \/ (i = gi /\ wpc = "put"))

\* an external actor relates publication v to project p on the server
ExternalAdd ==
    /\ hist.ext < MaxExt
    /\ \E p \in Projects, v \in Pubs :
         /\ RO(v) \notin remote[p]
         /\ remote' = [remote EXCEPT ![p] = @ \cup {RO(v)}]
         /\ LET early == has_matched /\ wpc \in {"refetch", "put"} /\ ~Refetched(p)
            IN  hist' = [hist EXCEPT
                           !.ext = @ + 1,
                           !.base = [@ EXCEPT ![p] = @ \cup {RO(v)}],
                           !.stale = IF early THEN @ \cup {<<p, v>>} ELSE @,
                           !.other = IF has_matched /\ ~early THEN @ \cup {<<p, v>>} ELSE @,
                           !.live_runs = 0,
                           !.snap = HistInit.snap,
                           !.ok1 = {}]
    /\ UNCHANGED batchVars
    /\ UNCHANGED wbVars

\* the rows of the cleaned file that the tool's instructions ask to upload
\* for the writeback (lines 31-36)
CleanRow == [projectid |-> Txt(<<"A", " ">>), grantid |-> Txt(TokG), doi |-> Txt(DoiUrl)]
CleanRows == {CleanRow}

\* lines 68-76: the cleaned file is uploaded and read
UploadClean ==
    /\ bpc = "nofile"
    /\ \E n \in 1..MaxRows :
         \E rows \in [1..n -> CleanRows] :
            /\ columns' = {"projectid", "grantid", "doi"}
            /\ df' = [i \in 1..n |-> InputRow(columns', rows[i])]
    /\ bpc' = "loaded"
    /\ UNCHANGED <<bi, has_matched, matched_df, remote, calls, found, hist>>
    /\ UNCHANGED wbVars

\* A row of a stored result table as lines 93-196 leave it for the cleaned
\* row: matched by its ProjectID to project p through an identifier of type
\* uri, match_count identifiers matching in all, publication v found by DOI,
\* and the audit finding the relation (already) or not.
ReviewedRow(p, uri, match_count, v, already) ==
    LET item == Item(p, <<Ident(TokA, uri)>>)
        row == [InputRow({"projectid", "grantid", "doi"}, CleanRow)
                  EXCEPT !.input_id_source = "ProjectID"]
        acc == Bind(Count([match_count |-> 0, bound |-> FALSE, project_uuid |-> NoneSeq,
                           found_project |-> Item(NoneSeq, <<>>), row |-> row]),
                    item, item.identifiers[1])
        found_pub == Pub(v, <<>>)
    IN  MarkAudit([Warn(acc.row, match_count, "ProjectID")
                     EXCEPT !.project_uuid = acc.project_uuid,
                            !.project_title = acc.found_project.title,
                            !.publication_uuid = found_pub.uuid,
                            !.publication_title = found_pub.title],
                  already)

\* the rows of the result tables a session can hold when the writeback starts
ReviewedRows ==
    { ReviewedRow(U1, "/type/ext", 1, V8, FALSE),
      ReviewedRow(U1, "/type/ext", 1, V7, FALSE),
      ReviewedRow(U2, "/type/grant", 1, V7, FALSE),
      ReviewedRow(U1, "/type/contract", 2, V7, FALSE),
      ReviewedRow(U2, "/type/grant", 1, V8, TRUE) }

\* a session in which a batch run has stored its result table (line 198) and
\* no writeback has run yet
InitLink ==
    /\ columns = {"projectid", "grantid", "doi"}
    /\ \E n \in 1..MaxRows : matched_df \in [1..n -> ReviewedRows]
    /\ df = matched_df
    /\ bpc = "done"
    /\ bi = Len(matched_df) + 1
    /\ has_matched = TRUE
    /\ remote \in RemoteInits
    /\ calls = <<>>
    /\ found = NoSearch
    /\ dry_run = TRUE
    /\ wpc = "idle"
    /\ grouped = <<>>
    /\ gi = 0
    /\ to_link = {}
    /\ existing = {}
    /\ payload = {}
    /\ log = <<>>
    /\ success = 0
    /\ fail = 0
    /\ hist = HistInit

NextLink == ConfirmAndLink \/ Refetch \/ Put \/ ExternalAdd

SpecLink == InitLink /\ [][NextLink]_vars

NextBatch == Upload \/ StartMatching \/ MatchRow \/ StoreMatched

SpecBatch == Init /\ [][NextBatch]_vars


Next ==
    \/ UploadClean \/ StartMatching \/ MatchRow \/ StoreMatched
    \/ ConfirmAndLink \/ Refetch \/ Put \/ ExternalAdd

Spec == Init /\ [][Next]_vars

-----------------------------------------------------------------------------
(* Properties.                                                             *)

\* the row the batch loop handled last: the one an exception stopped at, or
\* the one before idx
LastRow == IF bpc = "aborted" THEN bi ELSE bi - 1
HasLastRow == bpc \in {"loop", "aborted", "done"} /\ LastRow >= 1

Uuids(entries) == {e.uuid : e \in {x \in entries : x.has_uuid}}

GroupIndex(p) == CHOOSE i \in 1..Len(grouped) : grouped[i] = p

\* the groups the running writeback has logged
Logged == IF wpc = "done" THEN Len(grouped) ELSE gi - 1

LogCount(p, v) ==
    Cardinality({k \in 1..Len(log) : log[k].project = p /\ log[k].publication = v})

RowCount(rows, p, v) ==
    Cardinality({i \in rows : matched_df[i].project_uuid = p /\ matched_df[i].publication_uuid = v})

Warned == {i \in 1..Len(matched_df) : matched_df[i].identifier_warning # NoneStr}

\* C1: every PUT of the live writeback leaves the project with a superset of
\* the related-output uuids it held just before the PUT.
C1_AdditiveOnly ==
    [][(wpc = "put" /\ wpc' # "put")
          => Uuids(remote[grouped[gi]]) \subseteq Uuids(remote'[grouped[gi]])]_vars

\* C2: a row with an ambiguity warning is never written: it is not among the
\* rows the writeback works on, the payload of a group holds only what the
\* server held and the publications of the group's unwarned rows, and the
\* log holds no more entries for a project and a publication than there
\* are unwarned rows for them.
C2_AmbiguousNeverWritten ==
    wpc # "idle" =>
        /\ to_link \cap Warned = {}
        /\ wpc = "put" =>
              Uuids(payload) \subseteq
                  existing \cup {matched_df[i].publication_uuid :
                                   i \in {j \in (1..Len(matched_df)) \ Warned :
                                            matched_df[j].project_uuid = grouped[gi]}}
        /\ \A p \in Projects, v \in Pubs :
              LogCount(p, v) <= RowCount((1..Len(matched_df)) \ Warned, p, v)

\* a warned row that is ready to link, whose project the live writeback wrote
\* for another row, without the warned row's publication
C2_Witness ==
    /\ wpc = "done" /\ ~dry_run
    /\ \E i \in Warned :
         /\ matched_df[i].link /\ matched_df[i].status = StReadyToLink
         /\ \E k \in 1..Len(log) : /\ log[k].project = matched_df[i].project_uuid
                                   /\ log[k].kind = "Linked"
         /\ RO(matched_df[i].publication_uuid) \notin remote[matched_df[i].project_uuid]

\* C3: in the data frame and in the stored result table, a row's link flag is
\* true exactly when its status is "Ready to link".
C3_ReadyIffStatus ==
    /\ \A i \in 1..Len(df) : df[i].link <=> (df[i].status = StReadyToLink)
    /\ \A i \in 1..Len(matched_df) :
          matched_df[i].link <=> (matched_df[i].status = StReadyToLink)

\* a stored result table with a ready row and an already linked row
C3_Witness ==
    /\ has_matched
    /\ \E i, j \in 1..Len(matched_df) :
         /\ matched_df[i].status = StReadyToLink /\ matched_df[i].link
         /\ matched_df[j].status = StAlreadyLinked /\ ~matched_df[j].link

\* C4: no failure of a call made in the batch loop leaves the loop, and every
\* row of a finished batch run has a status.
C4_NoFailurePropagates ==
    /\ bpc # "aborted"
    /\ bpc = "done" => \A i \in 1..Len(df) : df[i].status # NoneStr

\* C5: a dry run issues no PUT, leaves the server as it would be without the
\* run, and logs one "Dry run" entry for each row of each group it has gone
\* through, which at its end is each row that passed the filter.
C5_DryRun ==
    (dry_run /\ wpc # "idle") =>
        /\ hist.puts = 0
        /\ remote = hist.base
        /\ \A k \in 1..Len(log) : log[k].kind = "Dry run"
        /\ \A p \in Projects, v \in Pubs :
              LogCount(p, v) =
                  IF \E i \in 1..Logged : grouped[i] = p THEN RowCount(to_link, p, v) ELSE 0
        /\ wpc = "done" => Len(log) = Cardinality(to_link)

\* a finished dry run over two ready rows of one project, with two entries
C5_Witness ==
    /\ dry_run /\ wpc = "done"
    /\ Cardinality(to_link) = 2
    /\ Len(grouped) = 1
    /\ Len(log) = 2

\* C6: when two live writebacks have run to their end over the same rows and
\* nothing else has changed the server, every project the first one wrote
\* holds what it held at the end of the first.
C6_Idempotent ==
    (hist.live_runs = 2 /\ wpc = "done" /\ ~dry_run /\ hist.ext = 0) =>
        \A p \in hist.ok1 : remote[p] = hist.snap[p]

\* whether the cell of column col is populated: the column exists, the field
\* is not empty and holds more than whitespace
Populated(row, col) == col \in columns /\ ~row[col].na /\ Strip(row[col].s) # <<>>

\* C7: a row the loop has gone through is matched by its ProjectID when that
\* is populated, else by its GrantID when that is populated, and a row with
\* neither ends with status NoInput, not ready, no input source, and no
\* remote call.
C7_OneIdentifier ==
    (HasLastRow /\ bpc # "aborted") =>
        LET r == df[LastRow]
        IN  /\ Populated(r, "projectid") =>
                 /\ r.input_id_source = "ProjectID"
                 /\ found.scanned => found.token = Strip(r.projectid.s)
            /\ (~Populated(r, "projectid") /\ Populated(r, "grantid")) =>
                 /\ r.input_id_source = "GrantID"
                 /\ found.scanned => found.token = Strip(r.grantid.s)
            /\ (~Populated(r, "projectid") /\ ~Populated(r, "grantid")) =>
                 /\ r.status = StNoInput
                 /\ ~r.link
                 /\ r.input_id_source = NoneStr
                 /\ calls = <<>>

MatchPlaces ==
    {pl \in UNION {{<<i, j>> : j \in 1..Len(found.items[i].identifiers)} :
                   i \in 1..Len(found.items)} :
        Strip(found.items[pl[1]].identifiers[pl[2]].id) = found.token}

FirstPlace ==
    CHOOSE m \in MatchPlaces :
        \A n \in MatchPlaces : m[1] < n[1] \/ (m[1] = n[1] /\ m[2] <= n[2])

\* C9: after an identifier search, match_count is the number of matching
\* identifiers over all candidates, the project and identifier type of the
\* row are those of the first match in result order, and the warning is set
\* exactly when match_count > 1.
C9_FirstMatchFullCount ==
    HasLastRow =>
        LET r == df[LastRow]
        IN  IF found.scanned
            THEN /\ found.match_count = Cardinality(MatchPlaces)
                 /\ (r.identifier_warning # NoneStr) <=> (Cardinality(MatchPlaces) > 1)
                 /\ MatchPlaces = {} =>
                       /\ r.status = StProjectNotFound
                       /\ r.matched_identifier_type_uri = NoneStr
                 /\ MatchPlaces # {} =>
                       LET item == found.items[FirstPlace[1]]
                       IN  /\ r.project_uuid = item.uuid
                           /\ r.matched_identifier_type_uri =
                                 item.identifiers[FirstPlace[2]].type_uri
            ELSE r.identifier_warning = NoneStr

\* a search with two matches on two projects, the first match neither on the
\* first identifier nor on the last candidate
C9_Witness ==
    /\ HasLastRow
    /\ found.scanned
    /\ found.match_count = 2
    /\ Len(found.items) = 2
    /\ FirstPlace = <<1, 2>>
    /\ df[LastRow].project_uuid = U2
    /\ df[LastRow].identifier_warning # NoneStr

\* C10: a relation added externally after the batch run and before the
\* writeback's re-fetch of its project is on the server after the
\* writeback's PUT for that project.
C10_RefetchGuardsStaleness ==
    \A pv \in hist.stale : pv[1] \in hist.put_ok => RO(pv[2]) \in remote[pv[1]]

====
